---- MODULE Spec2Model ----
(***************************************************************************)
(* A model of pyfresh, a project scaffolding tool:                         *)
(*   - Config (src/src/pyfresh/config.py): built-in defaults, deep merge   *)
(*     of an override document, environment overrides;                     *)
(*   - TemplateRenderer (src/src/pyfresh/templates.py): file-type dispatch *)
(*     and the rendered content of each file;                              *)
(*   - ProjectGenerator (src/src/project_generator/generator.py): the      *)
(*     generate pipeline over a target directory.                          *)
(*   - main (src/src/pyfresh/cli.py): load, generate, exit code.           *)
(* The specifications of the module: SpecMerge (the pure deep merge),      *)
(* SpecCfg (successive Config.load calls of one process), Spec (calls of   *)
(* ProjectGenerator.generate against an output directory), SpecFaults      *)
(* (the same with failing files) and SpecCli (one run of main).            *)
(***************************************************************************)
EXTENDS Integers, Sequences, FiniteSets, TLC

VARIABLES
    DEFAULT_CONFIG, \* contents of the dict objects nested in Config.DEFAULT_CONFIG
    loaded,         \* the Config returned by the last successful load
    held,           \* the Config returned by the successful load before that
    lastLoad,       \* inputs and outcome of the last load call
    base,           \* _deep_merge: the dict merged into
    override,       \* _deep_merge: the dict merged from
    merged,         \* _deep_merge: base after the call
    phase,          \* _deep_merge: "input" before the call, "merged" after
    fs,             \* the output directory: project directory name -> tree
    last,           \* arguments and outcome of the last generate call
    cli             \* one run of the command line: position, inputs, exit code

cfgVars == <<DEFAULT_CONFIG, loaded, held, lastLoad>>
mergeVars == <<base, override, merged, phase>>
genVars == <<fs, last>>
cliVars == <<cli>>
vars == <<DEFAULT_CONFIG, loaded, held, lastLoad, base, override, merged, phase,
          fs, last, cli>>

(***************************************************************************)
(* Configuration values. A YAML/Python value is a scalar string, a list of *)
(* strings or a dict; the tag k keeps the three kinds apart the way        *)
(* isinstance does.                                                        *)
(***************************************************************************)
S(s) == [k |-> "S", s |-> s]
L(l) == [k |-> "L", l |-> l]
M(m) == [k |-> "M", m |-> m]
IsDict(v) == v.k = "M"
EmptyDict == [x \in {} |-> S("")]
\* yaml.safe_load of an empty document: None.
None == [k |-> "N"]

\* Python truthiness of a parsed document: None, "", [] and {} are falsy.
Truthy(v) ==
    CASE v.k = "N" -> FALSE
      [] v.k = "S" -> v.s # ""
      [] v.k = "L" -> Len(v.l) > 0
      [] v.k = "M" -> DOMAIN v.m # {}

\* Config.DEFAULT_CONFIG as the class body builds it.
BuiltinDefaults ==
    [author |-> M([name |-> S("Your Name"),
                   email |-> S("your.email@example.com")]),
     templates |-> M(
        [standard |-> M(
            [description |-> S("Standard Python project with common tools"),
             dependencies |-> L(<<"pandas>=2.3.1,<3.0.0">>),
             dev_dependencies |-> M(
                [poetry |-> L(<<"pytest^7.4.0", "black^24.0.0", "mypy^1.8.0">>),
                 uv |-> L(<<"pytest>=7.4.0", "black>=24.0.0", "mypy>=1.8.0">>)]),
             files |-> L(<<"gitignore", "readme", "makefile", "main", "test">>)]),
         minimal |-> M(
            [description |-> S("Minimal Python project structure"),
             dependencies |-> L(<<>>),
             dev_dependencies |-> M(
                [poetry |-> L(<<"pytest^7.4.0">>),
                 uv |-> L(<<"pytest>=7.4.0">>)]),
             files |-> L(<<"gitignore", "readme", "main">>)]),
         cli |-> M(
            [description |-> S("CLI application template"),
             dependencies |-> L(<<"click>=8.0.0">>),
             dev_dependencies |-> M(
                [poetry |-> L(<<"pytest^7.4.0", "black^24.0.0">>),
                 uv |-> L(<<"pytest>=7.4.0", "black>=24.0.0">>)]),
             files |-> L(<<"gitignore", "readme", "makefile", "cli_main", "test">>)]),
         web |-> M(
            [description |-> S("Web application template"),
             dependencies |-> L(<<"fastapi>=0.100.0", "uvicorn>=0.20.0">>),
             dev_dependencies |-> M(
                [poetry |-> L(<<"pytest^7.4.0", "black^24.0.0", "httpx^0.24.0">>),
                 uv |-> L(<<"pytest>=7.4.0", "black>=24.0.0", "httpx>=0.24.0">>)]),
             files |-> L(<<"gitignore", "readme", "makefile", "web_main", "test">>)])]),
     python_version |-> S(">=3.11")]

(***************************************************************************)
(* Config._deep_merge(base, override). The code mutates base in place, one *)
(* override key at a time; the keys are distinct, so the dict it leaves is *)
(* the one built here key by key.                                          *)
(***************************************************************************)
RECURSIVE _deep_merge(_, _)
_deep_merge_shallow(b, o) ==
    [key \in DOMAIN b \cup DOMAIN o |->
        IF key \in DOMAIN o THEN o[key] ELSE b[key]]

_deep_merge(b, o) ==
    [key \in DOMAIN b \cup DOMAIN o |->
        IF key \in DOMAIN o
        THEN IF key \in DOMAIN b /\ IsDict(b[key]) /\ IsDict(o[key])
             THEN M(_deep_merge(b[key].m, o[key].m))
             ELSE o[key]
        ELSE b[key]]

(***************************************************************************)
(* SpecMerge: _deep_merge applied to every pair of dicts drawn from a      *)
(* bounded family: top-level keys a, b; nested keys x, y; scalars          *)
(* 0..MaxScalar.                                                           *)
(***************************************************************************)
MaxScalar == 1

MergeScalars == {S(i) : i \in 0..MaxScalar}
DictsOver(keys, vals) == UNION {[d -> vals] : d \in SUBSET keys}
MergeInner == {M(m) : m \in DictsOver({"x", "y"}, MergeScalars)}
MergeDicts == DictsOver({"a", "b"}, MergeScalars \cup MergeInner)

InitMerge ==
    /\ base \in MergeDicts
    /\ override \in MergeDicts
    /\ merged = EmptyDict
    /\ phase = "input"

\* One call _deep_merge(base, override); base is left holding the result.
DeepMerge ==
    /\ phase = "input"
    /\ merged' = _deep_merge(base, override)
    /\ phase' = "merged"
    /\ UNCHANGED <<base, override>>

(***************************************************************************)
(* Config.load. DEFAULT_CONFIG.copy() is a shallow copy: the new top-level *)
(* dict holds the same nested dict objects as the class attribute. A       *)
(* Config is therefore modelled by the keys it still shares with           *)
(* DEFAULT_CONFIG (shared), the values it owns (own), and the value it had *)
(* when load returned it (data).                                           *)
(***************************************************************************)
NoConfig == [own |-> EmptyDict, shared |-> {}, data |-> EmptyDict]

\* The dict a Config holds now: shared keys read through to the live objects.
Data(c, D) ==
    [key \in DOMAIN c.own \cup c.shared |->
        IF key \in c.shared THEN D[key] ELSE c.own[key]]

\* config_data[outer][inner] = value on the dict d, for an outer value that is a dict.
SetItem(d, outer, inner, value) ==
    [d EXCEPT ![outer] =
        M([key \in DOMAIN d[outer].m \cup {inner} |->
            IF key = inner THEN value ELSE d[outer].m[key]])]

\* config_data = cls.DEFAULT_CONFIG.copy(): which keys alias the class attribute.
CopyD(D) == D
CopyShared(D) == {key \in DOMAIN D : IsDict(D[key])}

\* The merge step of load: returns the copy's value, the keys it still
\* shares and the class attribute's value afterwards.
LoadMerge(D, src) ==
    IF src.kind = "doc" /\ Truthy(src.doc)
    THEN LET data == _deep_merge(CopyD(D), src.doc.m)
             shared == {key \in CopyShared(D) :
                            key \notin DOMAIN src.doc.m \/ IsDict(src.doc.m[key])}
         IN  [data |-> data, shared |-> shared,
              D |-> [key \in DOMAIN D |->
                        IF key \in shared THEN data[key] ELSE D[key]]]
    ELSE [data |-> CopyD(D), shared |-> CopyShared(D), D |-> D]

\* One environment override, config_data["author"][field] = value, when set.
LoadEnv(st, field, value) ==
    IF value = "" \/ st.raised # ""
    THEN st
    ELSE IF ~IsDict(st.data["author"])
         THEN [st EXCEPT !.raised = "TypeError"]
         ELSE [st EXCEPT
                 !.data = SetItem(st.data, "author", field, S(value)),
                 !.D = IF "author" \in st.shared
                       THEN SetItem(st.D, "author", field, S(value))
                       ELSE st.D]

\* Config.load(config_path) with the two environment variables as inputs.
\* raised names the exception that leaves load, "" when it returns.
load(D, src, envName, envEmail) ==
    IF src.kind = "invalid"
    THEN [raised |-> "YAMLError", D |-> D, data |-> EmptyDict, shared |-> {}]
    ELSE IF src.kind = "doc" /\ Truthy(src.doc) /\ ~IsDict(src.doc)
    THEN [raised |-> "AttributeError", D |-> D, data |-> EmptyDict, shared |-> {}]
    ELSE LET m == LoadMerge(D, src)
             st0 == [raised |-> "", D |-> m.D, data |-> m.data, shared |-> m.shared]
         IN  LoadEnv(LoadEnv(st0, "name", envName), "email", envEmail)

\* The override sources of the model: no file, an unparseable file, and
\* parsed documents of each shape the merge and the overrides tell apart.
CustomTemplate ==
    M([description |-> S("Docs only"), files |-> L(<<"readme", "license">>)])
Sources ==
    {[kind |-> "none", doc |-> None],
     [kind |-> "invalid", doc |-> None],
     [kind |-> "doc", doc |-> None],
     [kind |-> "doc", doc |-> L(<<"standard">>)],
     [kind |-> "doc", doc |-> M([author |-> M([name |-> S("Bob")])])],
     [kind |-> "doc", doc |-> M([author |-> S("Bob")])],
     [kind |-> "doc", doc |-> M([templates |-> M([docs |-> CustomTemplate])])],
     [kind |-> "doc", doc |-> M([python_version |-> S(">=3.12")])]}
EnvNames == {"", "Eve"}
EnvEmails == {"", "eve@example.com"}

NoLoad == [called |-> FALSE, src |-> [kind |-> "none", doc |-> None],
           envName |-> "", envEmail |-> "", raised |-> ""]

InitCfg ==
    /\ DEFAULT_CONFIG = BuiltinDefaults
    /\ loaded = NoConfig
    /\ held = NoConfig
    /\ lastLoad = NoLoad

\* A call of Config.load that returns a Config.
LoadReturns ==
    \E src \in Sources, envName \in EnvNames, envEmail \in EnvEmails :
        \E r \in {load(DEFAULT_CONFIG, src, envName, envEmail)} :
        /\ r.raised = ""
        /\ DEFAULT_CONFIG' = r.D
        /\ loaded' = [own |-> [key \in DOMAIN r.data \ r.shared |-> r.data[key]],
                      shared |-> r.shared, data |-> r.data]
        /\ held' = loaded
        /\ lastLoad' = [called |-> TRUE, src |-> src, envName |-> envName,
                        envEmail |-> envEmail, raised |-> ""]

\* A call of Config.load that raises; what it merged before raising stays.
LoadRaises ==
    \E src \in Sources, envName \in EnvNames, envEmail \in EnvEmails :
        \E r \in {load(DEFAULT_CONFIG, src, envName, envEmail)} :
        /\ r.raised # ""
        /\ DEFAULT_CONFIG' = r.D
        /\ UNCHANGED <<loaded, held>>
        /\ lastLoad' = [called |-> TRUE, src |-> src, envName |-> envName,
                        envEmail |-> envEmail, raised |-> r.raised]

(***************************************************************************)
(* Strings the generator edits are sequences of one-character strings, so  *)
(* that strip, replace and lower are computed and not assumed.             *)
(***************************************************************************)
UpperToLower ==
    [A |-> "a", B |-> "b", C |-> "c", D |-> "d", E |-> "e", F |-> "f", G |-> "g",
     H |-> "h", I |-> "i", J |-> "j", K |-> "k", L |-> "l", M |-> "m", N |-> "n",
     O |-> "o", P |-> "p", Q |-> "q", R |-> "r", S |-> "s", T |-> "t", U |-> "u",
     V |-> "v", W |-> "w", X |-> "x", Y |-> "y", Z |-> "z"]
Whitespace == {" ", "\t", "\n"}

RECURSIVE lstrip(_)
lstrip(s) ==
    IF s # <<>> /\ Head(s) \in Whitespace THEN lstrip(Tail(s)) ELSE s
RECURSIVE rstrip(_)
rstrip(s) ==
    IF s # <<>> /\ s[Len(s)] \in Whitespace
    THEN rstrip(SubSeq(s, 1, Len(s) - 1)) ELSE s
strip(s) == rstrip(lstrip(s))
replace(s, old, new) == [i \in 1..Len(s) |-> IF s[i] = old THEN new ELSE s[i]]
lower(s) ==
    [i \in 1..Len(s) |->
        IF s[i] \in DOMAIN UpperToLower THEN UpperToLower[s[i]] ELSE s[i]]

\* generate, lines 36-37.
SanitizeProjectName(raw) == replace(strip(raw), " ", "_")
PackageName(project_name) == replace(lower(project_name), "-", "_")

(***************************************************************************)
(* TemplateRenderer.render_file. The content of a rendered file is the     *)
(* record of everything its text is built from.                            *)
(***************************************************************************)
KnownFileTypes ==
    {"gitignore", "readme", "makefile", "main", "cli_main", "web_main", "test"}

\* dict.get(key, default) on a template definition.
Get(d, key, default) ==
    IF IsDict(d) /\ key \in DOMAIN d.m THEN d.m[key] ELSE default

Elems(l) == {l[i] : i \in 1..Len(l)}

\* The method render_file dispatches to: anything outside the list is pyproject.
RenderMethod(file_type) ==
    IF file_type \notin KnownFileTypes THEN "pyproject" ELSE file_type

_render_test(context, template_config) ==
    LET files == Elems(Get(template_config, "files", L(<<>>)).l) IN
    [kind |-> "test",
     import |-> IF "cli_main" \in files THEN "cli"
                ELSE IF "web_main" \in files THEN "app" ELSE "main",
     package_name |-> context.package_name]

\* template_config.get("dev_dependencies", {}).get(tool, []) raises
\* AttributeError where the definition holds no mapping there.
_render_pyproject(context, template_config, tool) ==
    IF ~IsDict(Get(template_config, "dev_dependencies", M(EmptyDict)))
    THEN [kind |-> "AttributeError"]
    ELSE
    [kind |-> "pyproject",
     format |-> IF tool = "poetry" THEN "poetry" ELSE "uv",
     package_name |-> context.package_name,
     author |-> context.author,
     email |-> context.email,
     description |-> context.description,
     python_version |-> context.python_version,
     dependencies |-> Get(template_config, "dependencies", L(<<>>)).l,
     dev_deps |-> Get(Get(template_config, "dev_dependencies", M(EmptyDict)),
                      tool, L(<<>>)).l]

render_file(file_type, context, template_config, tool) ==
    LET method == RenderMethod(file_type) IN
    CASE method = "gitignore" -> [kind |-> "gitignore"]
      [] method = "readme" ->
            [kind |-> "readme", project_name |-> context.project_name,
             description |-> context.description,
             package_name |-> context.package_name,
             commands |-> IF tool = "poetry" THEN "poetry" ELSE "uv"]
      [] method = "makefile" ->
            [kind |-> "makefile",
             commands |-> IF tool = "poetry" THEN "poetry" ELSE "uv"]
      [] method = "main" -> [kind |-> "main"]
      [] method = "cli_main" -> [kind |-> "cli_main"]
      [] method = "web_main" -> [kind |-> "web_main"]
      [] method = "test" -> _render_test(context, template_config)
      [] method = "pyproject" -> _render_pyproject(context, template_config, tool)
      [] OTHER -> [kind |-> "ValueError"]

\* The contents that stand for an exception raised while rendering.
RenderErrors == {"ValueError", "AttributeError"}

(***************************************************************************)
(* ProjectGenerator._get_file_path: a path is the sequence of its          *)
(* components, relative to the project directory.                          *)
(***************************************************************************)
_get_file_path_flat(file_type, context) ==
    CASE file_type = "gitignore" -> <<".gitignore">>
      [] file_type = "readme" -> <<"README.md">>
      [] file_type = "makefile" -> <<"Makefile">>
      [] file_type = "main" -> <<"main.py">>
      [] file_type = "cli_main" -> <<"cli.py">>
      [] file_type = "web_main" -> <<"app.py">>
      [] file_type = "test" -> <<"test_main.py">>
      [] file_type = "pyproject" -> <<"pyproject.toml">>
      [] OTHER -> <<file_type>>

_get_file_path(file_type, context) ==
    CASE file_type = "gitignore" -> <<".gitignore">>
      [] file_type = "readme" -> <<"README.md">>
      [] file_type = "makefile" -> <<"Makefile">>
      [] file_type = "main" -> <<"src", context.package_name, "main.py">>
      [] file_type = "cli_main" -> <<"src", context.package_name, "cli.py">>
      [] file_type = "web_main" -> <<"src", context.package_name, "app.py">>
      [] file_type = "test" -> <<"tests", "test_main.py">>
      [] file_type = "pyproject" -> <<"pyproject.toml">>
      [] OTHER -> <<file_type>>

(***************************************************************************)
(* The filesystem under the output directory. A tree is a project          *)
(* directory: whether it exists, the directories below it and its files.   *)
(***************************************************************************)
NoFiles == [p \in {} |-> [kind |-> "none"]]
Absent == [exists |-> FALSE, dirs |-> {}, files |-> NoFiles]

\* Path.mkdir(parents=True, exist_ok=True) of path below the project directory.
Mkdir(tree, path) ==
    [exists |-> TRUE,
     dirs |-> tree.dirs \cup {SubSeq(path, 1, i) : i \in 1..Len(path)},
     files |-> tree.files]

Parent(path) == SubSeq(path, 1, Len(path) - 1)

\* open(path, 'w') then write(content).
WriteFile(tree, path, content) ==
    [tree EXCEPT !.files =
        [p \in DOMAIN tree.files \cup {path} |->
            IF p = path THEN content ELSE tree.files[p]]]

\* shutil.rmtree(project_dir)
Rmtree(tree) == Absent

(***************************************************************************)
(* ProjectGenerator.generate and the steps it is made of.                  *)
(***************************************************************************)
\* Config.get(key, default) at the top level of the loaded data.
ConfigGet(config, key, default) ==
    IF key \in DOMAIN config THEN config[key] ELSE default

\* Config.get_template: ok is FALSE where the code raises ValueError.
get_template_or_empty(config, template_name) ==
    LET templates == ConfigGet(config, "templates", M(EmptyDict)) IN
    [ok |-> TRUE,
     template_config |-> IF template_name \in DOMAIN templates.m
                         THEN templates.m[template_name] ELSE M(EmptyDict)]

get_template(config, template_name) ==
    LET templates == ConfigGet(config, "templates", M(EmptyDict)) IN
    IF template_name \notin DOMAIN templates.m
    THEN [ok |-> FALSE, template_config |-> M(EmptyDict)]
    ELSE [ok |-> TRUE, template_config |-> templates.m[template_name]]

\* What input() can do besides returning the line typed.
EOFError == "<EOFError>"
KeyboardInterrupt == "<KeyboardInterrupt>"

\* _prompt_if_needed, line 111: whether input() is called at all.
Prompts(default) ==
    default = "" \/ default \in {"Your Name", "your.email@example.com"}

\* _prompt_if_needed(prompt, default): typed is what input() does, a line
\* ("" for a blank one) or one of the two exceptions the except clause
\* catches.
_prompt_if_needed(default, typed) ==
    IF Prompts(default)
    THEN IF typed \in {EOFError, KeyboardInterrupt} THEN default
         ELSE IF typed # "" THEN typed ELSE default
    ELSE default

\* generate, lines 70-75: the existing project directory.
SetupProjectDir_always_rmtree(tree, force, dry_run) ==
    IF tree.exists
    THEN IF ~force THEN [refused |-> TRUE, tree |-> tree]
         ELSE [refused |-> FALSE, tree |-> Rmtree(tree)]
    ELSE [refused |-> FALSE, tree |-> tree]

SetupProjectDir_never_refuses(tree, force, dry_run) ==
    IF tree.exists
    THEN IF ~dry_run THEN [refused |-> FALSE, tree |-> Rmtree(tree)]
         ELSE [refused |-> FALSE, tree |-> tree]
    ELSE [refused |-> FALSE, tree |-> tree]

SetupProjectDir_keeps_tree(tree, force, dry_run) ==
    IF tree.exists
    THEN IF ~force THEN [refused |-> TRUE, tree |-> tree]
         ELSE [refused |-> FALSE, tree |-> tree]
    ELSE [refused |-> FALSE, tree |-> tree]

SetupProjectDir(tree, force, dry_run) ==
    IF tree.exists
    THEN IF ~force THEN [refused |-> TRUE, tree |-> tree]
         ELSE IF ~dry_run THEN [refused |-> FALSE, tree |-> Rmtree(tree)]
         ELSE [refused |-> FALSE, tree |-> tree]
    ELSE [refused |-> FALSE, tree |-> tree]

\* generate, lines 77-85: the dry-run header, or project_dir.mkdir.
MkdirProjectDir_in_dry_run(tree, dry_run) == Mkdir(tree, <<>>)

MkdirProjectDir(tree, dry_run) ==
    IF dry_run THEN tree ELSE Mkdir(tree, <<>>)

\* _create_project_structure, lines 147-149: "Always include pyproject.toml".
AppendManifest(files) ==
    IF "pyproject" \notin Elems(files) THEN files \o <<"pyproject">> ELSE files

\* _create_project_structure, lines 145-149.
files_to_create(template_config) ==
    AppendManifest(Get(template_config, "files", L(<<>>)).l)

\* _create_project_structure, lines 132-142: the two fixed directories.
Directories(context) == <<(<<"src", context.package_name>>), (<<"tests">>)>>

RECURSIVE CreateDirectories_silent(_, _, _, _)
CreateDirectories_silent(st, directories, i, dry_run) ==
    IF i > Len(directories) THEN st
    ELSE CreateDirectories_silent(
            IF dry_run
            THEN st
            ELSE [st EXCEPT !.tree = Mkdir(@, directories[i]),
                            !.created = Append(@, <<"dir", directories[i]>>)],
            directories, i + 1, dry_run)

RECURSIVE CreateDirectories(_, _, _, _)
CreateDirectories(st, directories, i, dry_run) ==
    IF i > Len(directories) THEN st
    ELSE CreateDirectories(
            IF dry_run
            THEN [st EXCEPT !.printed = Append(@, <<"dir", directories[i]>>)]
            ELSE [st EXCEPT !.tree = Mkdir(@, directories[i]),
                            !.created = Append(@, <<"dir", directories[i]>>)],
            directories, i + 1, dry_run)

\* What a failed write leaves in the file it had opened.
Truncated == [kind |-> "truncated"]

\* _create_project_structure, lines 151-172: the loop over the file list,
\* from entry i on. q holds the call's fixed parameters; fail.at is the
\* entry whose open ("open") or write ("write") raises, 0 for none.
RECURSIVE CreateFiles_continues(_, _, _, _)
CreateFiles_continues(st, files, i, q) ==
    IF i > Len(files) THEN st
    ELSE
    LET content == render_file(files[i], q.context, q.template_config, q.tool)
        path == _get_file_path(files[i], q.context)
    IN  IF content.kind \in RenderErrors
        THEN CreateFiles_continues([st EXCEPT !.success = FALSE], files, i + 1, q)
        ELSE IF q.dry_run
        THEN CreateFiles_continues(
                [st EXCEPT !.printed = Append(@, <<"file", path>>)],
                files, i + 1, q)
        ELSE LET made == Mkdir(st.tree, Parent(path)) IN
             IF q.fail.at = i
             THEN CreateFiles_continues(
                    [st EXCEPT !.success = FALSE,
                               !.tree = IF q.fail.kind = "open" THEN made
                                        ELSE WriteFile(made, path, Truncated)],
                    files, i + 1, q)
             ELSE CreateFiles_continues(
                    [st EXCEPT !.tree = WriteFile(made, path, content),
                               !.created = Append(@, <<"file", path>>)],
                    files, i + 1, q)

RECURSIVE CreateFiles(_, _, _, _)
CreateFiles(st, files, i, q) ==
    IF i > Len(files) THEN st
    ELSE
    LET content == render_file(files[i], q.context, q.template_config, q.tool)
        path == _get_file_path(files[i], q.context)
    IN  IF content.kind \in RenderErrors
        THEN [st EXCEPT !.success = FALSE]
        ELSE IF q.dry_run
        THEN CreateFiles([st EXCEPT !.printed = Append(@, <<"file", path>>)],
                         files, i + 1, q)
        ELSE LET made == Mkdir(st.tree, Parent(path)) IN
             IF q.fail.at = i
             THEN [st EXCEPT !.success = FALSE,
                             !.tree = IF q.fail.kind = "open" THEN made
                                      ELSE WriteFile(made, path, Truncated)]
             ELSE CreateFiles(
                    [st EXCEPT !.tree = WriteFile(made, path, content),
                               !.created = Append(@, <<"file", path>>)],
                    files, i + 1, q)

_create_project_structure(tree, context, template_config, tool, dry_run, fail) ==
    LET st0 == [success |-> TRUE, tree |-> tree, printed |-> <<>>, created |-> <<>>]
        st1 == CreateDirectories(st0, Directories(context), 1, dry_run)
    IN  CreateFiles(st1, files_to_create(template_config), 1,
                    [context |-> context, template_config |-> template_config,
                     tool |-> tool, dry_run |-> dry_run, fail |-> fail])

\* _init_git_repo: git is "ok" when both commands succeed, "notfound" for
\* FileNotFoundError, "nonzero" for CalledProcessError.
_init_git_repo(tree, git) ==
    IF git = "ok" THEN Mkdir(tree, <<".git">>) ELSE tree

\* generate, lines 92-107: git is initialised after a successful real
\* run, and the result is what _create_project_structure returned.
FinishGenerate_git_fatal(st, dry_run, git) ==
    IF st.success /\ ~dry_run
    THEN [success |-> git = "ok", tree |-> _init_git_repo(st.tree, git),
          printed |-> st.printed, created |-> st.created, git |-> git]
    ELSE [success |-> st.success, tree |-> st.tree, printed |-> st.printed,
          created |-> st.created, git |-> "none"]

FinishGenerate(st, dry_run, git) ==
    IF st.success /\ ~dry_run
    THEN [success |-> st.success, tree |-> _init_git_repo(st.tree, git),
          printed |-> st.printed, created |-> st.created, git |-> git]
    ELSE [success |-> st.success, tree |-> st.tree, printed |-> st.printed,
          created |-> st.created, git |-> "none"]

\* generate(project_name, author, email, description, template, tool,
\* output_dir, force, dry_run) on the project directory's tree. a holds the
\* arguments, env what the environment decides during the call.
generate(config, a, env, tree) ==
    LET project_name == SanitizeProjectName(a.project_name)
        package_name == PackageName(project_name)
        author_info == ConfigGet(config, "author", M(EmptyDict))
        author == IF a.author = ""
                  THEN _prompt_if_needed(Get(author_info, "name", S("")).s, env.typed_name)
                  ELSE a.author
        email == IF a.email = ""
                 THEN _prompt_if_needed(Get(author_info, "email", S("")).s,
                                        env.typed_email)
                 ELSE a.email
        description == IF a.description = ""
                       THEN "A Python project generated with project-generator"
                       ELSE a.description
        context == [project_name |-> project_name, package_name |-> package_name,
                    author |-> author, email |-> email,
                    description |-> description, tool |-> a.tool,
                    python_version |-> ConfigGet(config, "python_version", S(">=3.11")).s]
        found == get_template(config, a.template)
        failed == [success |-> FALSE, tree |-> tree, printed |-> <<>>,
                   created |-> <<>>, git |-> "none"]
    IN  IF ~found.ok THEN failed
        ELSE
        LET setup == SetupProjectDir(tree, a.force, a.dry_run) IN
        IF setup.refused THEN failed
        ELSE
        LET made == MkdirProjectDir(setup.tree, a.dry_run)
            st == _create_project_structure(made, context, found.template_config,
                                            a.tool, a.dry_run, env.fail)
        IN  FinishGenerate(st, a.dry_run, env.git)

(***************************************************************************)
(* Spec: one ProjectGenerator, built on a Config loaded from an override   *)
(* document that adds two templates to the built-in four, called any       *)
(* number of times against one output directory.                           *)
(***************************************************************************)

\* "docs" lists an identifier outside the closed set; "pinned" lists the
\* manifest identifier itself.
GeneratorSource ==
    [kind |-> "doc",
     doc |-> M([templates |-> M(
        [docs |-> M([description |-> S("Docs only"),
                     files |-> L(<<"readme", "license">>)]),
         pinned |-> M([description |-> S("Manifest first"),
                       dependencies |-> L(<<"click>=8.0.0">>),
                       files |-> L(<<"pyproject", "gitignore">>)])])])]
GeneratorConfig == load(BuiltinDefaults, GeneratorSource, "", "").data

BuiltinTemplates == DOMAIN BuiltinDefaults.templates.m
TemplateNames == DOMAIN GeneratorConfig.templates.m \cup {"bogus"}
Tools == {"poetry", "uv"}
ProjectNames == {<<"m", "y", "-", "a", "p", "p">>,
                 <<" ", "M", "y", " ", "A", "p", "p", " ">>}
ProjectDirs == {SanitizeProjectName(n) : n \in ProjectNames}
GitOutcomes == {"ok", "notfound", "nonzero"}

Args ==
    [project_name : ProjectNames, author : {"Test Author"},
     email : {"test@example.com"}, description : {""},
     template : TemplateNames, tool : Tools, force : BOOLEAN, dry_run : BOOLEAN]

\* What the environment can decide during a call: nothing in a dry run; in
\* a real run, how git answers and, where faults are let in, which file's
\* open or write fails. Every call of Args passes author and email, so no
\* prompt is shown and nothing is typed.
NoFail == [at |-> 0, kind |-> "open"]
EnvChoices(config, a, faults) ==
    LET found == get_template(config, a.template)
        n == Len(files_to_create(found.template_config))
    IN  IF a.dry_run \/ ~found.ok
        THEN {[fail |-> NoFail, git |-> "ok",
               typed_name |-> "", typed_email |-> ""]}
        ELSE {[fail |-> NoFail, git |-> g,
               typed_name |-> "", typed_email |-> ""] : g \in GitOutcomes}
             \cup IF faults
                  THEN {[fail |-> [at |-> i, kind |-> kd], git |-> "ok",
                         typed_name |-> "", typed_email |-> ""] :
                            i \in 1..n, kd \in {"open", "write"}}
                  ELSE {}

\* A project directory somebody made before: a file the generator also
\* writes, and a file in a directory it never makes.
Junk == [kind |-> "junk"]
Stale ==
    [exists |-> TRUE,
     dirs |-> {<<"old">>},
     files |-> (<<"README.md">> :> Junk) @@ (<<"old", "notes.txt">> :> Junk)]
PriorTrees == {Absent, Stale}

NoCall ==
    [called |-> FALSE, project_dir |-> <<>>, template |-> "", tool |-> "",
     force |-> FALSE, dry_run |-> FALSE, existed |-> FALSE, fail |-> NoFail,
     success |-> FALSE, git |-> "none", printed |-> <<>>, created |-> <<>>]

\* The output directory holds one project directory, absent or made
\* before; every call of the run names it.
InitGen ==
    /\ \E n \in ProjectNames : fs \in [{SanitizeProjectName(n)} -> PriorTrees]
    /\ last = NoCall

\* One call of generate on a generator built on config, with arguments
\* from args, with or without I/O faults during it.
GenerateUnder(config, args, faults) ==
    \E a \in args :
      \E dir \in {SanitizeProjectName(a.project_name)} \cap DOMAIN fs :
        \E env \in EnvChoices(config, a, faults) :
          \E r \in {generate(config, a, env, fs[dir])} :
            /\ fs' = [fs EXCEPT ![dir] = r.tree]
            /\ last' = [called |-> TRUE, project_dir |-> dir,
                        template |-> a.template, tool |-> a.tool,
                        force |-> a.force, dry_run |-> a.dry_run,
                        existed |-> fs[dir].exists, fail |-> env.fail,
                        success |-> r.success, git |-> r.git,
                        printed |-> r.printed, created |-> r.created]

\* A call during which every open and write succeeds.
Generate == GenerateUnder(GeneratorConfig, Args, FALSE)

IdleCfg ==
    /\ DEFAULT_CONFIG = BuiltinDefaults
    /\ loaded = NoConfig
    /\ held = NoConfig
    /\ lastLoad = NoLoad
IdleMerge ==
    /\ base = EmptyDict
    /\ override = EmptyDict
    /\ merged = EmptyDict
    /\ phase = "idle"
IdleGen ==
    /\ fs = [d \in ProjectDirs |-> Absent]
    /\ last = NoCall
NoRun ==
    [pc |-> "idle", argv |-> EmptyDict, config |-> EmptyDict,
     interrupted |-> {}, raised |-> "", returned |-> FALSE,
     success |-> FALSE, exit |-> -1]
IdleCli == cli = NoRun

Init == InitGen /\ IdleCfg /\ IdleMerge /\ IdleCli
Next == Generate /\ UNCHANGED <<cfgVars, mergeVars, cliVars>>
Spec == Init /\ [][Next]_vars

InitLoads == InitCfg /\ IdleMerge /\ IdleGen /\ IdleCli
NextLoads ==
    \/ LoadReturns /\ UNCHANGED <<mergeVars, genVars, cliVars>>
    \/ LoadRaises /\ UNCHANGED <<mergeVars, genVars, cliVars>>
SpecCfg == InitLoads /\ [][NextLoads]_vars

InitPairs == InitMerge /\ IdleCfg /\ IdleGen /\ IdleCli
NextMerge == DeepMerge /\ UNCHANGED <<cfgVars, genVars, cliVars>>
SpecMerge == InitPairs /\ [][NextMerge]_vars

(***************************************************************************)
(* SpecFaults: calls of generate during which a file's open or write may   *)
(* fail, on a generator whose configuration also holds a template that     *)
(* the renderer cannot render.                                             *)
(***************************************************************************)
\* "broken" holds a list where _render_pyproject expects the mapping from
\* tool to development dependencies: rendering its manifest raises.
FaultSource ==
    [kind |-> "doc",
     doc |-> M([templates |-> M(
        [broken |-> M([description |-> S("No tool mapping"),
                       dev_dependencies |-> L(<<"pytest>=7.0.0">>),
                       files |-> L(<<"gitignore", "readme">>)])])])]
FaultConfig == load(BuiltinDefaults, FaultSource, "", "").data

\* One project and one tool: the tool only selects what the files hold.
FaultProject == <<"m", "y", "-", "a", "p", "p">>
FaultTemplates == {"minimal", "standard", "broken", "bogus"}
FaultArgs ==
    [project_name : {FaultProject}, author : {"Test Author"},
     email : {"test@example.com"}, description : {""},
     template : FaultTemplates, tool : {"poetry"},
     force : BOOLEAN, dry_run : BOOLEAN]

InitFaults ==
    /\ fs \in [{SanitizeProjectName(FaultProject)} -> PriorTrees]
    /\ last = NoCall

GenerateFaulty == GenerateUnder(FaultConfig, FaultArgs, TRUE)

InitF == InitFaults /\ IdleCfg /\ IdleMerge /\ IdleCli
NextFaults == GenerateFaulty /\ UNCHANGED <<cfgVars, mergeVars, cliVars>>
SpecFaults == InitF /\ [][NextFaults]_vars

(***************************************************************************)
(* SpecCli: one run of main (cli.py) in a fresh process, from the parsed   *)
(* arguments to the exit code. main loads the configuration, builds the    *)
(* generator and calls generate inside one try block; Ctrl-C can arrive    *)
(* while load runs, while a prompt waits for input, or later in generate.  *)
(***************************************************************************)
CliTemplates == {"standard", "minimal", "cli", "web"}
CliArgs ==
    [project_name : {FaultProject}, author : {"", "Test Author"},
     email : {"", "test@example.com"}, description : {""},
     template : CliTemplates, tool : Tools, force : BOOLEAN, dry_run : BOOLEAN]

\* --config: not given, a file that does not parse, a file naming the author.
CliSources ==
    {[kind |-> "none", doc |-> None],
     [kind |-> "invalid", doc |-> None],
     [kind |-> "doc", doc |-> M([author |-> M([name |-> S("Bob")])])]}

\* What input() does at a prompt.
TypedLines == {"", "Ann", EOFError, KeyboardInterrupt}

InitCli ==
    /\ fs \in [{SanitizeProjectName(FaultProject)} -> PriorTrees]
    /\ last = NoCall
    /\ \E a \in CliArgs : cli = [NoRun EXCEPT !.pc = "start", !.argv = a]

\* main, lines 99-101 and 120-125: Config.load returns, raises, or is
\* interrupted.
CliLoad ==
    /\ cli.pc = "start"
    /\ \E src \in CliSources, envName \in EnvNames, envEmail \in EnvEmails,
          interrupt \in BOOLEAN :
         \E r \in {load(BuiltinDefaults, src, envName, envEmail)} :
           cli' = IF interrupt
                  THEN [cli EXCEPT !.pc = "done", !.exit = 130,
                                   !.interrupted = {"load"}]
                  ELSE IF r.raised # ""
                  THEN [cli EXCEPT !.pc = "done", !.exit = 1,
                                   !.raised = r.raised]
                  ELSE [cli EXCEPT !.pc = "loaded", !.config = r.data]
    /\ UNCHANGED <<fs, last>>

\* The prompts generate shows for the arguments a under config, and what
\* the user can do at each.
AsksName(config, a) ==
    a.author = ""
    /\ Prompts(Get(ConfigGet(config, "author", M(EmptyDict)), "name", S("")).s)
AsksEmail(config, a) ==
    a.email = ""
    /\ Prompts(Get(ConfigGet(config, "author", M(EmptyDict)), "email", S("")).s)
CliEnvChoices(config, a) ==
    {[e EXCEPT !.typed_name = tn, !.typed_email = te] :
        e \in EnvChoices(config, a, FALSE),
        tn \in IF AsksName(config, a) THEN TypedLines ELSE {""},
        te \in IF AsksEmail(config, a) THEN TypedLines ELSE {""}}
AtPrompt(config, a, env) ==
    IF \/ AsksName(config, a) /\ env.typed_name = KeyboardInterrupt
       \/ AsksEmail(config, a) /\ env.typed_email = KeyboardInterrupt
    THEN {"prompt"} ELSE {}

\* main, lines 103-118: generate returns and main returns 0 or 1.
CliGenerateReturns ==
    /\ cli.pc = "loaded"
    /\ \E dir \in {SanitizeProjectName(cli.argv.project_name)} :
        \E env \in CliEnvChoices(cli.config, cli.argv) :
          \E r \in {generate(cli.config, cli.argv, env, fs[dir])} :
            /\ fs' = [fs EXCEPT ![dir] = r.tree]
            /\ cli' = [cli EXCEPT !.pc = "done", !.returned = TRUE,
                                  !.success = r.success,
                                  !.exit = IF r.success THEN 0 ELSE 1,
                                  !.interrupted =
                                      AtPrompt(cli.config, cli.argv, env)]
    /\ UNCHANGED last

\* main, lines 120-125: generate does not return. After the prompts, Ctrl-C
\* raises KeyboardInterrupt, which no handler in generate catches; or
\* project_dir.mkdir (line 85) raises OSError, after an existing directory
\* was removed under force.
CliGenerateRaises ==
    /\ cli.pc = "loaded"
    /\ \E dir \in {SanitizeProjectName(cli.argv.project_name)} :
        \E env \in CliEnvChoices(cli.config, cli.argv),
           event \in {"KeyboardInterrupt", "OSError"} :
          LET a == cli.argv
              found == get_template(cli.config, a.template)
              setup == SetupProjectDir(fs[dir], a.force, a.dry_run)
          IN  IF event = "KeyboardInterrupt"
              THEN /\ fs' = fs
                   /\ cli' = [cli EXCEPT !.pc = "done", !.exit = 130,
                                 !.interrupted =
                                     AtPrompt(cli.config, a, env) \cup {"generate"}]
              ELSE /\ found.ok /\ ~setup.refused /\ ~a.dry_run
                   /\ fs' = [fs EXCEPT ![dir] = setup.tree]
                   /\ cli' = [cli EXCEPT !.pc = "done", !.exit = 1,
                                 !.raised = "OSError",
                                 !.interrupted = AtPrompt(cli.config, a, env)]
    /\ UNCHANGED last

InitMain == InitCli /\ IdleCfg /\ IdleMerge
NextCli ==
    \/ CliLoad /\ UNCHANGED <<cfgVars, mergeVars>>
    \/ CliGenerateReturns /\ UNCHANGED <<cfgVars, mergeVars>>
    \/ CliGenerateRaises /\ UNCHANGED <<cfgVars, mergeVars>>
SpecCli == InitMain /\ [][NextCli]_vars

(***************************************************************************)
(* Claims about generate, checked under Spec.                              *)
(***************************************************************************)
\* The project directory of the last call, as it is now.
Target == fs[last.project_dir]
KnownTemplate(name) == name \in DOMAIN GeneratorConfig.templates.m

\* C1 as stated: after any dry-run call the target directory does not
\* exist, whatever the output directory held before the call.
C1_DryRunTargetAbsent ==
    (last.called /\ last.dry_run) => ~Target.exists

\* C1 as amended: a dry-run call never creates the target directory, and
\* never removes it either: the directory exists after the call exactly
\* when it existed before it.
C1_DryRunNeverCreates ==
    (last.called /\ last.dry_run) => (Target.exists = last.existed)

\* A successful dry run on an absent target, which is still absent.
C1_Witness ==
    /\ last.called /\ last.dry_run /\ last.success
    /\ ~last.existed /\ ~Target.exists

C3_RefusesExisting ==
    [][/\ (last'.called /\ ~last'.force /\ fs[last'.project_dir].exists) =>
            (~last'.success /\ fs' = fs /\ last'.git = "none"
             /\ last'.created = <<>>)
       /\ (/\ last.called /\ last.success /\ ~last.dry_run /\ ~last.force
           /\ last'.project_dir = last.project_dir
           /\ last'.template = last.template /\ last'.tool = last.tool
           /\ last'.force = last.force /\ last'.dry_run = last.dry_run) =>
            (~last'.success /\ fs' = fs)]_vars

\* A refused real call on a tree that an earlier successful call generated.
C3_Witness ==
    /\ last.called /\ ~last.force /\ ~last.dry_run /\ last.existed
    /\ ~last.success
    /\ <<"pyproject.toml">> \in DOMAIN Target.files
    /\ <<".git">> \in Target.dirs

\* The files a template's list maps to, and the directories generate makes.
GeneratedPaths(template, context) ==
    {_get_file_path(ft, context) :
        ft \in Elems(files_to_create(GeneratorConfig.templates.m[template]))}
ContextOf(project_dir) ==
    [project_name |-> project_dir, package_name |-> PackageName(project_dir)]
GeneratedDirs(context) ==
    {<<"src">>, <<"src", context.package_name>>, <<"tests">>, <<".git">>}

\* C4: after a successful forced real call on an existing target, only the
\* newly generated files remain: no file or directory of the old tree
\* survives, and every file holds freshly rendered content.
C4_ForceReplaces ==
    (last.called /\ ~last.dry_run /\ last.force /\ last.existed /\ last.success) =>
        /\ DOMAIN Target.files = GeneratedPaths(last.template, ContextOf(last.project_dir))
        /\ \A p \in DOMAIN Target.files : Target.files[p].kind \notin {"junk", "truncated"}
        /\ Target.dirs \subseteq GeneratedDirs(ContextOf(last.project_dir))

\* A forced regeneration with the minimal template over an existing tree.
C4_Witness ==
    /\ last.called /\ ~last.dry_run /\ last.force /\ last.existed /\ last.success
    /\ last.template = "minimal"
    /\ <<"README.md">> \in DOMAIN Target.files
    /\ Target.files[<<"README.md">>].kind = "readme"
    /\ <<"old", "notes.txt">> \notin DOMAIN Target.files

\* C5: with a template name that is no key of the configuration's
\* templates, generate fails and touches nothing: nothing is created, and
\* an existing target is neither removed nor modified, even with force.
C5_UnknownTemplate ==
    [][(last'.called /\ ~KnownTemplate(last'.template)) =>
          (~last'.success /\ fs' = fs /\ last'.git = "none"
           /\ last'.created = <<>> /\ last'.printed = <<>>)]_vars

\* A forced real call with an unknown template on an existing tree.
C5_Witness ==
    /\ last.called /\ last.template = "bogus" /\ last.force /\ ~last.dry_run
    /\ last.existed /\ ~last.success
    /\ Target = Stale

\* The file-type to path table, written out for a package name.
C6_PathTable(pkg) ==
    [gitignore |-> <<".gitignore">>,
     readme |-> <<"README.md">>,
     makefile |-> <<"Makefile">>,
     main |-> <<"src", pkg, "main.py">>,
     cli_main |-> <<"src", pkg, "cli.py">>,
     web_main |-> <<"src", pkg, "app.py">>,
     test |-> <<"tests", "test_main.py">>,
     pyproject |-> <<"pyproject.toml">>]
my_app_dir == <<"m", "y", "-", "a", "p", "p">>
my_app_pkg == <<"m", "y", "_", "a", "p", "p">>

\* C6: a successful real call with a built-in template on an absent target
\* leaves exactly the images, under the path table, of the template's file
\* list plus the manifest, with src/<package> and tests present; for
\* minimal and my-app that is .gitignore, README.md, src/my_app/main.py and
\* pyproject.toml, and no file of another template.
C6_GeneratedTree ==
    (/\ last.called /\ ~last.dry_run /\ last.success /\ ~last.existed
     /\ last.template \in BuiltinTemplates) =>
        LET pkg == PackageName(last.project_dir)
            listed == Elems(BuiltinDefaults.templates.m[last.template].m.files.l)
                        \cup {"pyproject"}
        IN  /\ DOMAIN Target.files = {C6_PathTable(pkg)[ft] : ft \in listed}
            /\ \A ft \in listed :
                 Target.files[C6_PathTable(pkg)[ft]].kind = ft
            /\ {<<"src", pkg>>, <<"tests">>} \subseteq Target.dirs
            /\ (last.template = "minimal" /\ last.project_dir = my_app_dir) =>
                 /\ DOMAIN Target.files =
                        {<<".gitignore">>, <<"README.md">>,
                         <<"src", my_app_pkg, "main.py">>, <<"pyproject.toml">>}
                 /\ DOMAIN Target.files \cap
                        {<<"src", my_app_pkg, "cli.py">>,
                         <<"src", my_app_pkg, "app.py">>,
                         <<"Makefile">>, <<"tests", "test_main.py">>} = {}

\* generate("my-app", template="minimal", tool="poetry") on an absent target.
C6_Witness ==
    /\ last.called /\ ~last.dry_run /\ last.success /\ ~last.existed
    /\ last.template = "minimal" /\ last.tool = "poetry"
    /\ last.project_dir = my_app_dir
    /\ <<"src", my_app_pkg, "main.py">> \in DOMAIN Target.files
    /\ Cardinality(DOMAIN Target.files) = 4

\* How many entries of a file list render_file renders as the manifest.
ManifestRequests(files) ==
    Cardinality({i \in 1..Len(files) : RenderMethod(files[i]) = "pyproject"})

\* C7: for every template of the configuration, also one listing the
\* manifest identifier or an identifier outside the closed set, the list
\* the generator processes asks for the manifest exactly once, a real run
\* writes manifest content to exactly one path, and appending the manifest
\* twice gives the same list as appending it once.
C7_ManifestExactlyOnce ==
    (last.called /\ ~last.dry_run /\ last.success) =>
        LET files == files_to_create(GeneratorConfig.templates.m[last.template])
        IN  /\ ManifestRequests(files) = 1
            /\ Cardinality({p \in DOMAIN Target.files :
                               Target.files[p].kind = "pyproject"}) = 1
            /\ AppendManifest(files) = files

(***************************************************************************)
(* Claims about Config.load, checked under SpecCfg.                        *)
(***************************************************************************)
PlainLoad ==
    /\ lastLoad.called /\ lastLoad.raised = ""
    /\ lastLoad.src.kind = "none"
    /\ lastLoad.envName = "" /\ lastLoad.envEmail = ""

\* C8: every load returns its own snapshot seeded from the built-in
\* defaults: no load changes the built-in defaults or a Config another
\* load returned, and a load with no override document and no environment
\* variables returns exactly the built-in defaults.
C8_LoadOwnsSnapshot ==
    /\ DEFAULT_CONFIG = BuiltinDefaults
    /\ Data(held, DEFAULT_CONFIG) = held.data
    /\ PlainLoad => loaded.data = BuiltinDefaults

\* An override source that is absent, empty, or parses to a mapping.
MappingSource(src) ==
    \/ src.kind = "none"
    \/ src.kind = "doc" /\ (src.doc = None \/ IsDict(src.doc))

\* C10: for every override document that parses, a set author-name or
\* author-email variable ends up as author.name / author.email of the
\* Config that load returns, whatever the document says about author.
C10_EnvTakesPrecedence ==
    (lastLoad.called /\ MappingSource(lastLoad.src)) =>
        /\ lastLoad.raised = ""
        /\ lastLoad.envName # "" =>
             Get(loaded.data["author"], "name", None) = S(lastLoad.envName)
        /\ lastLoad.envEmail # "" =>
             Get(loaded.data["author"], "email", None) = S(lastLoad.envEmail)

\* The paths a plan or a run lists as directories and as files, and the
\* directories a tree must hold for them: each listed directory and every
\* directory above a listed path.
ListedDirs(list) == {list[i][2] : i \in {j \in 1..Len(list) : list[j][1] = "dir"}}
ListedFiles(list) == {list[i][2] : i \in {j \in 1..Len(list) : list[j][1] = "file"}}
DirsFor(list) ==
    ListedDirs(list)
    \cup UNION {{SubSeq(list[i][2], 1, n) : n \in 1..(Len(list[i][2]) - 1)} :
                  i \in 1..Len(list)}
SameRequest(c, d) ==
    /\ c.project_dir = d.project_dir
    /\ c.template = d.template
    /\ c.tool = d.tool

\* C14: when a successful dry run and a successful real run for the same
\* project name, template and tool follow one another, in either order,
\* the entries the dry run reports are, in order, the directories the
\* real run makes and the files it writes; and what the real run leaves
\* under the target is exactly that: the files of the plan, and the
\* directories of the plan with those above them, next to git's own .git.
C14_PlanIsFaithful ==
    [][/\ (/\ last.called /\ last.dry_run /\ last.success
           /\ last'.called /\ ~last'.dry_run /\ last'.success
           /\ SameRequest(last, last')) =>
            /\ last'.created = last.printed
            /\ DOMAIN fs'[last'.project_dir].files = ListedFiles(last.printed)
            /\ fs'[last'.project_dir].dirs \ {<<".git">>} = DirsFor(last.printed)
       /\ (/\ last.called /\ ~last.dry_run /\ last.success
           /\ last'.called /\ last'.dry_run /\ last'.success
           /\ SameRequest(last, last')) =>
            /\ last'.printed = last.created
            /\ DOMAIN fs[last.project_dir].files = ListedFiles(last'.printed)
            /\ fs[last.project_dir].dirs \ {<<".git">>} = DirsFor(last'.printed)]_vars

\* A forced dry run of the standard template over the tree a real run
\* generated: the plan lists src/my_app and tests, then the six files, and
\* these are the files on disk.
C14_Witness ==
    /\ last.called /\ last.dry_run /\ last.force /\ last.existed /\ last.success
    /\ last.template = "standard" /\ last.project_dir = my_app_dir
    /\ last.printed =
          << <<"dir", <<"src", my_app_pkg>> >>, <<"dir", <<"tests">> >>,
             <<"file", <<".gitignore">> >>, <<"file", <<"README.md">> >>,
             <<"file", <<"Makefile">> >>,
             <<"file", <<"src", my_app_pkg, "main.py">> >>,
             <<"file", <<"tests", "test_main.py">> >>,
             <<"file", <<"pyproject.toml">> >> >>
    /\ DOMAIN Target.files = ListedFiles(last.printed)
    /\ Target.dirs = DirsFor(last.printed) \cup {<<".git">>}

(***************************************************************************)
(* Claims about _deep_merge, checked under SpecMerge.                      *)
(***************************************************************************)
\* The key paths of a dict: every non-empty sequence of keys that leads to
\* a value.
RECURSIVE KeyPaths(_)
KeyPaths(d) ==
    UNION {{<<key>>} \cup
           (IF IsDict(d[key])
            THEN {<<key>> \o p : p \in KeyPaths(d[key].m)} ELSE {}) :
           key \in DOMAIN d}

\* The value at key path p of dict d, for p in KeyPaths(d).
RECURSIVE At(_, _)
At(d, p) == IF Len(p) = 1 THEN d[p[1]] ELSE At(d[p[1]].m, Tail(p))

\* The override holds a value that is no mapping at a proper prefix of p.
Shadowed(o, p) ==
    \E i \in 1..(Len(p) - 1) :
        /\ SubSeq(p, 1, i) \in KeyPaths(o)
        /\ ~IsDict(At(o, SubSeq(p, 1, i)))

\* C9 as stated: every key path of the defaults is still a key path of the
\* merged result, for every defaults mapping and every override mapping.
C9_NoKeyPathDeleted ==
    phase = "merged" => KeyPaths(base) \subseteq KeyPaths(merged)

\* C9 as amended: a key path of the defaults is still present unless the
\* override holds a non-mapping value at a proper prefix of it, which
\* replaces the default mapping there whole; every top-level key of the
\* defaults is kept; every override key path is present, with the
\* override's value where that is no mapping; default values the override
\* does not reach are kept; mappings on both sides are merged key by key;
\* and {a:1} over {a:0,b:2} gives {a:1,b:2}.
C9_DeepMergeOverrideWins ==
    phase = "merged" =>
        /\ \A p \in KeyPaths(base) :
             /\ Shadowed(override, p) \/ p \in KeyPaths(merged)
             /\ (~Shadowed(override, p) /\ p \notin KeyPaths(override)) =>
                    At(merged, p) = At(base, p)
             /\ (/\ ~Shadowed(override, p) /\ p \in KeyPaths(override)
                 /\ IsDict(At(base, p)) /\ IsDict(At(override, p))) =>
                    /\ IsDict(At(merged, p))
                    /\ DOMAIN At(merged, p).m =
                          DOMAIN At(base, p).m \cup DOMAIN At(override, p).m
        /\ DOMAIN base \subseteq DOMAIN merged
        /\ \A p \in KeyPaths(override) :
             /\ p \in KeyPaths(merged)
             /\ ~IsDict(At(override, p)) => At(merged, p) = At(override, p)
        /\ KeyPaths(merged) \subseteq KeyPaths(base) \cup KeyPaths(override)
        /\ _deep_merge([a |-> S(0), b |-> S(2)], [a |-> S(1)])
              = [a |-> S(1), b |-> S(2)]

\* A nested merge, an overridden scalar and an untouched default at once:
\* {a:{y:1}, b:1} over {a:{x:0}, b:0} gives {a:{x:0,y:1}, b:1}.
C9_Witness ==
    /\ phase = "merged"
    /\ base = [a |-> M([x |-> S(0)]), b |-> S(0)]
    /\ override = [a |-> M([y |-> S(1)]), b |-> S(1)]
    /\ merged = [a |-> M([x |-> S(0), y |-> S(1)]), b |-> S(1)]

(***************************************************************************)
(* Claims about failing runs and git, checked under SpecFaults.            *)
(***************************************************************************)
\* The context generate builds for a call of FaultArgs.
FaultContext(project_dir, tool) ==
    [project_name |-> project_dir, package_name |-> PackageName(project_dir),
     author |-> "Test Author", email |-> "test@example.com",
     description |-> "A Python project generated with project-generator",
     tool |-> tool,
     python_version |-> ConfigGet(FaultConfig, "python_version", S(">=3.11")).s]

\* The last call got as far as the file list: a real run with a known
\* template on a target that was absent or is replaced.
ReachedFiles ==
    /\ last.called /\ ~last.dry_run
    /\ last.template \in DOMAIN FaultConfig.templates.m
    /\ (~last.existed \/ last.force)

\* The first entry of the last call's file list whose rendering raises or
\* whose open or write fails; 0 when there is none.
FailedEntry ==
    LET tc == FaultConfig.templates.m[last.template]
        files == files_to_create(tc)
        ctx == FaultContext(last.project_dir, last.tool)
        bad == {i \in 1..Len(files) :
                  \/ render_file(files[i], ctx, tc, last.tool).kind \in RenderErrors
                  \/ last.fail.at = i}
    IN  IF bad = {} THEN 0 ELSE CHOOSE i \in bad : \A j \in bad : i <= j

\* C11: when rendering, opening or writing entry k of the file list fails
\* in a real run, generate returns failure, git is not invoked, every
\* entry before k is on disk with its rendered content together with the
\* project directory, src/<package> and tests, and no entry after k is
\* written.
C11_AbortsWithoutRollback ==
    (ReachedFiles /\ FailedEntry > 0) =>
        LET tc == FaultConfig.templates.m[last.template]
            files == files_to_create(tc)
            ctx == FaultContext(last.project_dir, last.tool)
            k == FailedEntry
            path(i) == _get_file_path(files[i], ctx)
        IN  /\ ~last.success
            /\ last.git = "none" /\ <<".git">> \notin Target.dirs
            /\ Target.exists
            /\ {<<"src", ctx.package_name>>, <<"tests">>} \subseteq Target.dirs
            /\ \A i \in 1..(k - 1) :
                 /\ path(i) \in DOMAIN Target.files
                 /\ Target.files[path(i)] = render_file(files[i], ctx, tc, last.tool)
            /\ \A i \in (k + 1)..Len(files) : path(i) \notin DOMAIN Target.files
            /\ DOMAIN Target.files \subseteq {path(i) : i \in 1..k}
            /\ last.created =
                  [i \in 1..2 |-> <<"dir", Directories(ctx)[i]>>]
                  \o [i \in 1..(k - 1) |-> <<"file", path(i)>>]

\* The write of README.md, second of minimal's four files, fails on a
\* forced run over an existing tree: .gitignore is written, README.md is
\* left empty, main.py and the manifest are missing, the old tree is gone.
C11_Witness ==
    /\ ReachedFiles /\ last.existed /\ last.force
    /\ last.template = "minimal" /\ last.fail = [at |-> 2, kind |-> "write"]
    /\ ~last.success /\ last.git = "none"
    /\ DOMAIN Target.files = {<<".gitignore">>, <<"README.md">>}
    /\ Target.files[<<".gitignore">>].kind = "gitignore"
    /\ Target.files[<<"README.md">>] = Truncated

\* The manifest of "broken" cannot be rendered: the two files before it
\* are on disk and generate has failed.
C11_RenderErrorReached ==
    /\ ReachedFiles /\ last.template = "broken" /\ last.fail = NoFail
    /\ ~last.success
    /\ DOMAIN Target.files = {<<".gitignore">>, <<"README.md">>}

\* C12: git is invoked only by a real run in which every entry of the
\* file list was rendered and written, all of them on disk by then; never
\* by a dry run or a failed call; every real run without a failure invokes
\* it; and the call returns success whether git succeeds, is not found or
\* exits non-zero.
C12_GitOnlyOnFullSuccess ==
    /\ (last.called /\ last.git # "none") =>
          LET tc == FaultConfig.templates.m[last.template]
              files == files_to_create(tc)
              ctx == FaultContext(last.project_dir, last.tool)
          IN  /\ ReachedFiles /\ FailedEntry = 0
              /\ last.git \in GitOutcomes
              /\ last.success
              /\ \A i \in 1..Len(files) :
                   /\ _get_file_path(files[i], ctx) \in DOMAIN Target.files
                   /\ <<"file", _get_file_path(files[i], ctx)>> \in Elems(last.created)
              /\ (<<".git">> \in Target.dirs) = (last.git = "ok")
    /\ (last.called /\ (last.dry_run \/ ~last.success)) => last.git = "none"
    /\ (ReachedFiles /\ FailedEntry = 0) =>
          (last.success /\ last.git \in GitOutcomes)

\* A real run of the standard template during which git is not found: all
\* six files are written, there is no .git, and the call succeeds.
C12_Witness ==
    /\ ReachedFiles /\ last.template = "standard" /\ last.git = "notfound"
    /\ last.success
    /\ Cardinality(DOMAIN Target.files) = 6
    /\ <<".git">> \notin Target.dirs

(***************************************************************************)
(* Claims about main, checked under SpecCli.                               *)
(***************************************************************************)
\* C13: main always returns one of 0, 1 and 130; it returns 130 when the
\* user interrupted the run at any point, the prompts included; otherwise
\* 0 exactly when generate returned success, and 1 when generate returned
\* failure or load or generate raised.
C13_ExitCodes ==
    cli.pc = "done" =>
        /\ cli.exit \in {0, 1, 130}
        /\ cli.interrupted # {} => cli.exit = 130
        /\ cli.interrupted = {} =>
             /\ (cli.exit = 0) = (cli.returned /\ cli.success)
             /\ (cli.raised # "" \/ (cli.returned /\ ~cli.success)) => cli.exit = 1

====
